---- MODULE Spec2Model ----
(***************************************************************************)
(* fence/resources/google/utils.py: per-user Google service accounts and   *)
(* their keys.  The database (GoogleServiceAccount, GoogleServiceAccountKey*)
(* relations), the cloud provider and a set of concurrent web requests are *)
(* modelled.  A step of a request runs a function up to and including its  *)
(* next database query or commit; minting a key at the provider is a step  *)
(* of its own, and creating an account at the provider is part of the step *)
(* that commits the account's row.  Requests interleave between steps.     *)
(***************************************************************************)
EXTENDS Integers, Sequences, FiniteSets

\* ---------------------------------------------------------------- bounds
MaxCalls == 2           \* calls of the module's functions in one run
MaxTime == 1            \* time.time() returns a value in 0..MaxTime

\* flask.current_app.config['GOOGLE_SERVICE_ACCOUNT_KEY_FOR_URL_SIGNING_EXPIRES_IN']
DefaultExpiresIn == 10

\* ---------------------------------------------------------------- values
\* Python's None is the empty tuple, a present value v is <<v>>.
None == <<>>
Some(v) == <<v>>
Val(o) == o[1]
\* Python truthiness of an optional int (expires) and of an optional str.
TruthyInt(o) == o # None /\ Val(o) # 0
TruthyStr(o) == o # None /\ Val(o) # ""

Procs == {1, 2}                         \* concurrent requests
Users == {1, 2}
Clients == {"c1"}
ClientArgs == {None} \cup {Some(c) : c \in Clients}
GroupArgs == {None, Some("pg")}
ExpiresArgs == {None, Some(0), Some(7)}
Times == 0..MaxTime
CustomKeyIds == {0}                     \* key_id arguments of add_custom_...
CustomExpires == {Some(7)}              \* expires arguments of add_custom_...

VARIABLES
    accounts,   \* GoogleServiceAccount relation, in insertion order
    keys,       \* GoogleServiceAccountKey relation, in insertion order
    minted,     \* number of keys the provider has minted
    ncalls,     \* number of calls started
    pc,         \* pc[p]: where request p stands
    call,       \* call[p]: the operation request p runs and its arguments
    local,      \* local[p]: the local variables of the running functions
    ret,        \* ret[p]: how the call ended and what it returned
    hist,       \* hist[p]: what the call has done so far (provider calls, inserts)
    groups,     \* Group relation with each group's projects (fence.resources.admin)
    looked,     \* the last lookup of a group: its argument and its result
    given       \* given[n]: the description create_group was called with for n

vars == <<accounts, keys, minted, ncalls, pc, call, local, ret, hist,
          groups, looked, given>>
grpVars == <<groups, looked, given>>

\* ------------------------------------------------------------- relations
Indices(table) == DOMAIN table

\* A GoogleServiceAccount row (utils.py 243-248; id is the autoincrement key,
\* email is issued with uniqueId by the provider and is not read by this module).
ServiceAccountRow(id, unique, client_id, user_id) ==
    [id |-> id, google_unique_id |-> unique, client_id |-> client_id, user_id |-> user_id]

\* A GoogleServiceAccountKey row (utils.py 166-170 and 209-214).
KeyRow(key_id, sa_id, expires, private_key) ==
    [key_id |-> key_id, service_account_id |-> sa_id, expires |-> expires,
     private_key |-> private_key]

\* What Query.first() may return for a set of matching rows: None when nothing
\* matches, else one of the matching rows (the query states no ORDER BY).
First(rows) == IF rows = {} THEN {None} ELSE {Some(r) : r \in rows}

\* The rows of a relation that satisfy a condition, as a set.
Rows(table) == {table[i] : i \in Indices(table)}

\* get_google_service_account_for_client, 188-196: the values the query
\* filter_by(client_id=client_id, user_id=user_id).first() may return.
IgnoringClient(accs, client_id, user_id) ==
    First({r \in Rows(accs) : r.user_id = user_id})
IgnoringUser(accs, client_id, user_id) ==
    First({r \in Rows(accs) : r.client_id = client_id})
get_google_service_account_for_client(accs, client_id, user_id) ==
    First({r \in Rows(accs) : r.client_id = client_id /\ r.user_id = user_id})

\* The query of get_or_create_users_primary_google_service_account_key, 51-59:
\* filter(service_account_id == sa_id).filter(private_key.isnot(None)).first()
IgnoringMaterial(ks, sa_id) ==
    First({r \in Rows(ks) : r.service_account_id = sa_id})
OnlyWithoutMaterial(ks, sa_id) ==
    First({r \in Rows(ks) : r.service_account_id = sa_id /\ r.private_key = None})
PrimaryKeyQuery(ks, sa_id) ==
    First({r \in Rows(ks) : r.service_account_id = sa_id /\ r.private_key # None})

\* `if not user_google_service_account`, 43 and 95
NeverMissing(r) == FALSE
NoAccount(r) == r = None

\* `if proxy_group_id`, 233
AnyProxyGroup(proxy_group_id) == TRUE
HasProxyGroup(proxy_group_id) == TruthyStr(proxy_group_id)

\* expires = expires or (int(time.time()) + config[...]), 201-204
ResolveExpires(expires, t) ==
    IF TruthyInt(expires) THEN Val(expires) ELSE t + DefaultExpiresIn

\* The JSON credentials g_cloud.get_access_key(google_unique_id) returns: the
\* n-th key the provider mints, for the account with that uniqueId.
AccessKey(n, unique) == [private_key_id |-> n, client_id |-> unique]

\* The uniqueId of the account the provider creates under the name
\* get_valid_service_account_id_for_client(client_id, user_id).
UniqueIdOf(client_id, user_id) == <<client_id, user_id>>

\* ------------------------------------------------------------- requests
NoArgs == [op |-> "none", user_id |-> 0, client_id |-> None,
           proxy_group_id |-> None, expires |-> None,
           key_id |-> None, service_account_id |-> None]
NoLocal == [user_sa |-> None, service_account |-> None, key |-> None,
            expires |-> None, found |-> None]
NoRet == [outcome |-> "none", first |-> None, second |-> None]
NoHist == [prim |-> FALSE, hit |-> FALSE, bound |-> FALSE, miss |-> FALSE,
           nCreateSa |-> 0, nGetKey |-> 0, saRows |-> {}, keyRows |-> {},
           tRead |-> None]

\* What the relations hold, for the claims' preconditions: the accounts of a
\* (client, user) pair, and the keys with material of a user's primary account.
AccountsOf(client_id, user_id) ==
    {i \in Indices(accounts) :
        accounts[i].client_id = client_id /\ accounts[i].user_id = user_id}
PrimaryIds(user_id) == {accounts[i].id : i \in AccountsOf(None, user_id)}
UsableKeys(user_id) ==
    {i \in Indices(keys) :
        keys[i].service_account_id \in PrimaryIds(user_id) /\ keys[i].private_key # None}

\* The history of a call as it starts: the user has a primary account (prim), it
\* has a key with material (hit), the (client, user) pair has an account (bound).
PreOf(args) ==
    [NoHist EXCEPT
        !.prim = AccountsOf(None, args.user_id) # {},
        !.hit = UsableKeys(args.user_id) # {},
        !.bound = AccountsOf(args.client_id, args.user_id) # {}]

PrimaryArgs(op) ==
    {[NoArgs EXCEPT !.op = op, !.user_id = u, !.proxy_group_id = g, !.expires = e] :
        u \in Users, g \in GroupArgs, e \in ExpiresArgs}
ClientArgsOf(op) ==
    {[NoArgs EXCEPT !.op = op, !.user_id = u, !.client_id = c, !.proxy_group_id = g] :
        u \in Users, c \in ClientArgs, g \in GroupArgs}
ResolverArgs ==
    {[NoArgs EXCEPT !.op = "get_sa", !.user_id = u, !.client_id = c] :
        u \in Users, c \in ClientArgs}
CustomArgs ==
    {[NoArgs EXCEPT !.op = "add_custom", !.key_id = Some(k),
                    !.service_account_id = Some(accounts[i].id), !.expires = e] :
        k \in CustomKeyIds, i \in Indices(accounts), e \in CustomExpires}

\* Request p may start a call: it runs none, and the run has calls left.
CanCall(p) ==
    /\ pc[p] \in {"idle", "done"}
    /\ ncalls < MaxCalls

\* Request p enters a function with the arguments args.
Enter(p, args) ==
    /\ call' = [call EXCEPT ![p] = args]
    /\ ncalls' = ncalls + 1

\* The call of p ends: an exception propagates or a value is returned.
Finish(p, outcome, first, second) ==
    /\ pc' = [pc EXCEPT ![p] = "done"]
    /\ ret' = [ret EXCEPT ![p] = [outcome |-> outcome, first |-> first, second |-> second]]

Goto(p, label) ==
    /\ pc' = [pc EXCEPT ![p] = label]
    /\ ret' = [ret EXCEPT ![p] = NoRet]

\* ------------------------------------------------ the functions, step by step
\* create_google_access_key_for_client, 131-142, run by p with the locals loc:
\* the account of (client_id, user_id) is looked up; without one, a client's
\* account is created next, and a call without client is aborted with 404.
CakLookupAccount(p, client_id, user_id, loc) ==
    \E r \in get_google_service_account_for_client(accounts, client_id, user_id) :
        IF r # None
        THEN /\ local' = [local EXCEPT ![p] = [loc EXCEPT !.service_account = r]]
             /\ Goto(p, "cak_key")
        ELSE /\ local' = [local EXCEPT ![p] = loc]
             /\ IF TruthyStr(client_id)
                THEN Goto(p, "csa")
                ELSE Finish(p, "NotFound404", None, None)

\* The lookup of the user's primary account that opens both primary-key
\* functions (39-49 and 91-101): without one, InternalError is raised.
PrimaryLookup(p, args, next) ==
    \E r \in get_google_service_account_for_client(accounts, None, args.user_id) :
        IF NoAccount(r)
        THEN /\ local' = [local EXCEPT ![p] = NoLocal]
             /\ Finish(p, "InternalError", None, None)
        ELSE /\ local' = [local EXCEPT ![p] = [NoLocal EXCEPT !.user_sa = r]]
             /\ Goto(p, next)

\* get_or_create_users_primary_google_service_account_key is called, 37-49
GocCall(p) ==
    /\ CanCall(p)
    /\ \E args \in PrimaryArgs("get_or_create") :
        /\ Enter(p, args)
        /\ hist' = [hist EXCEPT ![p] = PreOf(args)]
        /\ PrimaryLookup(p, args, "goc_key")
    /\ UNCHANGED <<accounts, keys, minted, grpVars>>

\* get_or_create_users_primary_google_service_account_key, 51-67: the cache hit
\* returns here; the miss goes on into _create_users_primary_..._key.
GocLookupKey(p) ==
    /\ pc[p] = "goc_key"
    /\ hist' = [hist EXCEPT ![p].miss = UsableKeys(call[p].user_id) = {}]
    /\ IF local[p].user_sa = None
       THEN \* None.id
            /\ local' = local
            /\ Finish(p, "AttributeError", None, None)
       ELSE \E k \in PrimaryKeyQuery(keys, Val(local[p].user_sa).id) :
            /\ local' = [local EXCEPT ![p].found = k]
            /\ IF k # None
               THEN Finish(p, "ok", Val(k).private_key, k)
               ELSE Goto(p, "cpk")
    /\ UNCHANGED <<accounts, keys, minted, ncalls, call, grpVars>>

\* create_users_primary_google_service_account_key is called, 91-104
CupCall(p) ==
    /\ CanCall(p)
    /\ \E args \in PrimaryArgs("create_primary") :
        /\ Enter(p, args)
        /\ hist' = [hist EXCEPT ![p] = PreOf(args)]
        /\ PrimaryLookup(p, args, "cpk")
    /\ UNCHANGED <<accounts, keys, minted, grpVars>>

\* _create_users_primary_google_service_account_key, 201-206: expires is
\* resolved (the clock is read only when expires is falsy), and
\* create_google_access_key_for_client(None, user_id, proxy_group_id) is entered.
CpkEnter(p) ==
    /\ pc[p] = "cpk"
    /\ \E t \in Times :
        LET read == ~TruthyInt(call[p].expires)
            loc == [local[p] EXCEPT
                        !.expires = Some(ResolveExpires(call[p].expires, t))]
        IN  /\ read \/ t = 0
            /\ hist' = [hist EXCEPT ![p].tRead = IF read THEN Some(t) ELSE None]
            /\ CakLookupAccount(p, None, call[p].user_id, loc)
    /\ UNCHANGED <<accounts, keys, minted, ncalls, call, grpVars>>

\* create_google_access_key_for_client is called by a request, 131-142
CakCall(p) ==
    /\ CanCall(p)
    /\ \E args \in ClientArgsOf("create_access_key") :
        /\ Enter(p, args)
        /\ hist' = [hist EXCEPT ![p] = PreOf(args)]
        /\ CakLookupAccount(p, args.client_id, args.user_id, NoLocal)
    /\ UNCHANGED <<accounts, keys, minted, grpVars>>

\* _create_google_service_account_for_client, 233-257: without a proxy group
\* the call is aborted with 404; else the provider creates the account (or
\* raises) and the row is added and committed (or the commit raises).
CsaCreate(p) ==
    /\ pc[p] = "csa"
    /\ IF HasProxyGroup(call[p].proxy_group_id)
       THEN \/ LET row == ServiceAccountRow(
                             Len(accounts) + 1,
                             UniqueIdOf(call[p].client_id, call[p].user_id),
                             call[p].client_id, call[p].user_id)
               IN  /\ accounts' = Append(accounts, row)
                   /\ local' = [local EXCEPT ![p].service_account = Some(row)]
                   /\ hist' = [hist EXCEPT ![p].nCreateSa = @ + 1,
                                           ![p].saRows = @ \cup {row.id}]
                   /\ Goto(p, "cak_key")
            \/ /\ UNCHANGED <<accounts, local>>
               /\ hist' = [hist EXCEPT ![p].nCreateSa = @ + 1]
               /\ \/ Finish(p, "StorageError", None, None)
                  \/ Finish(p, "ProviderError", None, None)
       ELSE /\ UNCHANGED <<accounts, local, hist>>
            /\ Finish(p, "NotFound404", None, None)
    /\ UNCHANGED <<keys, minted, ncalls, call, grpVars>>

\* create_google_access_key_for_client, 144-147: the provider mints a key (or
\* raises); the function returns (key, service_account) to its caller.
CakGetAccessKey(p) ==
    /\ pc[p] = "cak_key"
    /\ hist' = [hist EXCEPT ![p].nGetKey = @ + 1]
    /\ \/ LET key == AccessKey(minted + 1,
                               Val(local[p].service_account).google_unique_id)
          IN  /\ minted' = minted + 1
              /\ local' = [local EXCEPT ![p].key = Some(key)]
              /\ IF call[p].op = "create_access_key"
                 THEN Finish(p, "ok", Some(key), local[p].service_account)
                 ELSE Goto(p, "cpk_commit")
       \/ /\ UNCHANGED <<minted, local>>
          /\ Finish(p, "ProviderError", None, None)
    /\ UNCHANGED <<accounts, keys, ncalls, call, grpVars>>

\* As CpkCommit, but the account keeps one key with material: a stored one is
\* overwritten by the new key.
CpkCommitUpsert(p) ==
    /\ pc[p] = "cpk_commit"
    /\ LET key == Val(local[p].key)
           sa_id == Val(local[p].service_account).id
           row == KeyRow(Some(key.private_key_id), sa_id, local[p].expires, Some(key))
           old == {i \in Indices(keys) :
                      keys[i].service_account_id = sa_id /\ keys[i].private_key # None}
           at == IF old = {} THEN Len(keys) + 1 ELSE CHOOSE i \in old : TRUE
       IN  /\ keys' = IF old = {} THEN Append(keys, row) ELSE [keys EXCEPT ![at] = row]
           /\ hist' = [hist EXCEPT ![p].keyRows = @ \cup {at}]
           /\ Finish(p, "ok", Some(key), local[p].found)
    /\ UNCHANGED <<accounts, minted, ncalls, call, local, grpVars>>

\* _create_users_primary_google_service_account_key, 208-218: the key row is
\* added and committed, and the key goes back to the caller; the get-or-create
\* caller returns it with its own user_service_account_key (line 67).
CpkCommit(p) ==
    /\ pc[p] = "cpk_commit"
    /\ \/ LET key == Val(local[p].key)
              row == KeyRow(Some(key.private_key_id),
                            Val(local[p].service_account).id,
                            local[p].expires, Some(key))
          IN  /\ keys' = Append(keys, row)
              /\ hist' = [hist EXCEPT ![p].keyRows = @ \cup {Len(keys) + 1}]
              /\ Finish(p, "ok", Some(key), local[p].found)
       \/ /\ UNCHANGED <<keys, hist>>
          /\ Finish(p, "StorageError", None, None)
    /\ UNCHANGED <<accounts, minted, ncalls, call, local, grpVars>>

\* add_custom_service_account_key_expiration, 166-172
AckCall(p) ==
    /\ CanCall(p)
    /\ \E args \in CustomArgs :
        /\ Enter(p, args)
        /\ local' = [local EXCEPT ![p] = NoLocal]
        /\ \/ /\ keys' = Append(keys, KeyRow(args.key_id, Val(args.service_account_id),
                                             args.expires, None))
              /\ hist' = [hist EXCEPT ![p] = [PreOf(args) EXCEPT !.keyRows = {Len(keys) + 1}]]
              /\ Finish(p, "ok", None, None)
           \/ /\ keys' = keys
              /\ hist' = [hist EXCEPT ![p] = PreOf(args)]
              /\ Finish(p, "StorageError", None, None)
    /\ UNCHANGED <<accounts, minted, grpVars>>

\* get_google_service_account_for_client is called by a request, 188-196
GsaCall(p) ==
    /\ CanCall(p)
    /\ \E args \in ResolverArgs :
        /\ Enter(p, args)
        /\ local' = [local EXCEPT ![p] = NoLocal]
        /\ hist' = [hist EXCEPT ![p] = PreOf(args)]
        /\ \E r \in get_google_service_account_for_client(
                        accounts, args.client_id, args.user_id) :
            Finish(p, "ok", r, None)
    /\ UNCHANGED <<accounts, keys, minted, grpVars>>

\* ------------------------------------------------- group administration
\* fence.resources.admin (create_group, get_group_info) as the specification
\* and the admin tests describe it.
NewGroupNames == {"new_group_1", "new_group_2", "new_group_3"}
GroupNames == NewGroupNames \cup {"test_group_2"}
Descriptions == {"a new group", "another group"}

GroupRow(name, description, projects) ==
    [name |-> name, description |-> description, projects |-> projects]

\* The group the fixture awg_users stores (test_get_group).
Fixture ==
    <<GroupRow("test_group_2", "the second test group",
               {"test_project_1", "test_project_2"})>>

\* db_session.query(Group).filter(Group.name == name).first()
AnyGroup(grps, name) == First(Rows(grps))
GroupByName(grps, name) == First({g \in Rows(grps) : g.name = name})

\* The row create_group stores for a name and a description: a group without
\* projects.
NewGroup(name, description) == GroupRow(name, description, {})

\* Whether a group of that name was stored, by the fixture or by create_group.
IsStored(name) == name = Fixture[1].name \/ given[name] # None

\* create_group(db_session, name, description), for a name no stored group has
CreateGroup(name, description) ==
    /\ GroupByName(groups, name) = {None}
    /\ groups' = Append(groups, NewGroup(name, description))
    /\ given' = [given EXCEPT ![name] = Some(description)]
    /\ UNCHANGED <<looked, accounts, keys, minted, ncalls, pc, call, local, ret, hist>>

\* A lookup by name, as the tests make it: the stored group, or None.
QueryGroup(name) ==
    /\ \E g \in GroupByName(groups, name) :
        looked' = Some([op |-> "query", name |-> name, known |-> IsStored(name),
                        result |-> g])
    /\ UNCHANGED <<groups, given, accounts, keys, minted, ncalls, pc, call, local, ret, hist>>

\* get_group_info(db_session, name): name, description and projects of the
\* stored group.
GetGroupInfo(name) ==
    /\ \E g \in GroupByName(groups, name) :
        /\ g # None
        /\ looked' = Some([op |-> "info", name |-> name, known |-> IsStored(name),
                           result |-> Some([name |-> Val(g).name,
                                            description |-> Val(g).description,
                                            projects |-> Val(g).projects])])
    /\ UNCHANGED <<groups, given, accounts, keys, minted, ncalls, pc, call, local, ret, hist>>

\* ------------------------------------------------------------ specification
\* The proxy group and the primary service account of user 1 exist (they are
\* created together, outside this module); user 2 has neither.
Init ==
    /\ accounts = <<ServiceAccountRow(1, UniqueIdOf(None, 1), None, 1)>>
    /\ keys = <<>>
    /\ minted = 0
    /\ ncalls = 0
    /\ pc = [p \in Procs |-> "idle"]
    /\ call = [p \in Procs |-> NoArgs]
    /\ local = [p \in Procs |-> NoLocal]
    /\ ret = [p \in Procs |-> NoRet]
    /\ hist = [p \in Procs |-> NoHist]
    /\ groups = Fixture
    /\ looked = None
    /\ given = [n \in GroupNames |-> None]

Next ==
    \E p \in Procs :
        \/ GocCall(p)
        \/ GocLookupKey(p)
        \/ CupCall(p)
        \/ CpkEnter(p)
        \/ CakCall(p)
        \/ CsaCreate(p)
        \/ CakGetAccessKey(p)
        \/ CpkCommit(p)
        \/ AckCall(p)
        \/ GsaCall(p)

Spec == Init /\ [][Next]_vars

NextGroups ==
    \E name \in GroupNames :
        \/ \E description \in Descriptions : CreateGroup(name, description)
        \/ QueryGroup(name)
        \/ GetGroupInfo(name)

SpecGroups == Init /\ [][NextGroups]_vars

\* ------------------------------------------------------------------ claims
Done(p) == pc[p] = "done"
IsOp(p, op) == call[p].op = op
PrimaryOp(p) == IsOp(p, "get_or_create") \/ IsOp(p, "create_primary")
NoProviderCall(p) == hist[p].nCreateSa = 0 /\ hist[p].nGetKey = 0
NoInsert(p) == hist[p].saRows = {} /\ hist[p].keyRows = {}

\* C1: a get-or-create call for a user whose primary account has a key with
\* material as the call starts ends well, whatever expires it was given: it
\* returns the material of a key row of that account that was stored before it
\* and is unchanged, calls the provider not at all and inserts no row.
C1_CacheHit ==
    \A p \in Procs :
        (Done(p) /\ IsOp(p, "get_or_create") /\ hist[p].hit) =>
            /\ ret[p].outcome = "ok"
            /\ \E i \in UsableKeys(call[p].user_id) : keys[i].private_key = ret[p].first
            /\ NoProviderCall(p)
            /\ NoInsert(p)

\* A hit that was asked for an expiration of its own, 7, and one that was
\* asked for the default: both returned a stored key.
C1_Witness ==
    \E p \in Procs :
        /\ Done(p) /\ IsOp(p, "get_or_create") /\ hist[p].hit
        /\ call[p].expires = Some(7)
        /\ ret[p].outcome = "ok"
        /\ \E i \in UsableKeys(call[p].user_id) :
            keys[i].private_key = ret[p].first /\ keys[i].expires # Some(7)

\* The row a call has inserted into GoogleServiceAccountKey, when it is one.
InsertedKey(p) == keys[CHOOSE i \in hist[p].keyRows : TRUE]

\* The expiration the claim C2 states for the new row: the argument when one
\* is given, else the time read plus the default.
StatedExpires(p) ==
    IF call[p].expires # None THEN call[p].expires
    ELSE Some(Val(hist[p].tRead) + DefaultExpiresIn)
\* The same, with a given 0 counted as not given.
TruthyExpires(p) ==
    IF TruthyInt(call[p].expires) THEN call[p].expires
    ELSE Some(Val(hist[p].tRead) + DefaultExpiresIn)

\* A get-or-create call that found no key with material and ended well has
\* called get-access-key once and inserted one row, of the primary account,
\* with the minted key, its private_key_id and the expiration expected.
MissCreatesOneRow(p, expected) ==
    (Done(p) /\ IsOp(p, "get_or_create") /\ hist[p].miss /\ ret[p].outcome = "ok") =>
        /\ hist[p].nGetKey = 1
        /\ hist[p].nCreateSa = 0
        /\ hist[p].saRows = {}
        /\ Cardinality(hist[p].keyRows) = 1
        /\ ret[p].first # None
        /\ InsertedKey(p).private_key = ret[p].first
        /\ InsertedKey(p).key_id = Some(Val(ret[p].first).private_key_id)
        /\ InsertedKey(p).service_account_id \in PrimaryIds(call[p].user_id)
        /\ InsertedKey(p).expires = expected

\* C2: on a cache miss one successful get-or-create call calls get-access-key
\* exactly once and inserts exactly one key row, owned by the primary account,
\* holding the minted key and its private_key_id, and expiring at the expires
\* argument when one is given and otherwise at current time plus the default.
C2_MissExpiresAsGiven ==
    \A p \in Procs : MissCreatesOneRow(p, StatedExpires(p))

\* What the code does on a miss: as C2, but an expires of 0 is replaced by
\* current time plus the default, as an omitted one is.
MissExpiresWhenTruthy ==
    \A p \in Procs : MissCreatesOneRow(p, TruthyExpires(p))

\* C3: GoogleServiceAccount holds at most one row per (client, user) pair, a
\* null client counting as a value of its own.
C3_OneRowPerPair ==
    \A i, j \in Indices(accounts) :
        (accounts[i].client_id = accounts[j].client_id
            /\ accounts[i].user_id = accounts[j].user_id) => i = j

\* Rows of both relations are only ever appended: none is deleted or modified.
RowsOnlyInserted ==
    [][/\ Len(accounts') >= Len(accounts)
       /\ SubSeq(accounts', 1, Len(accounts)) = accounts
       /\ Len(keys') >= Len(keys)
       /\ SubSeq(keys', 1, Len(keys)) = keys]_vars

\* C4: for a user without a row with null client, both primary-key functions
\* end with InternalError, call the provider not at all and insert no row.
C4_NoPrimaryAccount ==
    \A p \in Procs :
        (Done(p) /\ PrimaryOp(p) /\ ~hist[p].prim) =>
            /\ ret[p].outcome = "InternalError"
            /\ NoProviderCall(p)
            /\ NoInsert(p)

\* Both functions have ended with InternalError for a user without primary
\* account.
C4_Witness ==
    \E p, q \in Procs :
        /\ Done(p) /\ IsOp(p, "get_or_create") /\ ~hist[p].prim
        /\ Done(q) /\ IsOp(q, "create_primary") /\ ~hist[q].prim
        /\ ret[p].outcome = "InternalError" /\ ret[q].outcome = "InternalError"

\* C5: create_google_access_key_for_client for a pair without stored account,
\* called without client or without proxy group, ends with the 404 request
\* error, calls the provider not at all and inserts no row.
C5_RequestError ==
    \A p \in Procs :
        (/\ Done(p) /\ IsOp(p, "create_access_key") /\ ~hist[p].bound
         /\ (call[p].client_id = None \/ call[p].proxy_group_id = None)) =>
            /\ ret[p].outcome = "NotFound404"
            /\ NoProviderCall(p)
            /\ NoInsert(p)

\* A call with a client and no proxy group, and one with a proxy group and no
\* client, have both ended with 404.
C5_Witness ==
    \E p, q \in Procs :
        /\ Done(p) /\ IsOp(p, "create_access_key") /\ ~hist[p].bound
        /\ call[p].client_id # None /\ call[p].proxy_group_id = None
        /\ ret[p].outcome = "NotFound404"
        /\ Done(q) /\ IsOp(q, "create_access_key") /\ ~hist[q].bound
        /\ call[q].client_id = None /\ call[q].proxy_group_id # None
        /\ ret[q].outcome = "NotFound404"

\* C6: two get-or-create calls for one user that both found no key with
\* material and both ended well have each persisted a row of their own: the
\* account then has two key rows with material, and neither call has failed.
C6_RaceBothPersist ==
    \A p, q \in Procs :
        (/\ p # q
         /\ Done(p) /\ IsOp(p, "get_or_create") /\ hist[p].miss /\ ret[p].outcome = "ok"
         /\ Done(q) /\ IsOp(q, "get_or_create") /\ hist[q].miss /\ ret[q].outcome = "ok"
         /\ call[p].user_id = call[q].user_id) =>
            /\ Cardinality(hist[p].keyRows) = 1
            /\ Cardinality(hist[q].keyRows) = 1
            /\ hist[p].keyRows \cap hist[q].keyRows = {}
            /\ (hist[p].keyRows \cup hist[q].keyRows) \subseteq UsableKeys(call[p].user_id)
            /\ InsertedKey(p).private_key = ret[p].first
            /\ InsertedKey(q).private_key = ret[q].first

\* Both calls of the race are over, both with a key, and the primary account
\* of their user has two key rows with material.
C6_Witness ==
    \E p, q \in Procs :
        /\ p # q
        /\ Done(p) /\ IsOp(p, "get_or_create") /\ hist[p].miss /\ ret[p].outcome = "ok"
        /\ Done(q) /\ IsOp(q, "get_or_create") /\ hist[q].miss /\ ret[q].outcome = "ok"
        /\ call[p].user_id = call[q].user_id
        /\ Cardinality(UsableKeys(call[p].user_id)) = 2
        /\ \A i, j \in UsableKeys(call[p].user_id) :
            keys[i].service_account_id = keys[j].service_account_id

\* C7: get_google_service_account_for_client never fails, calls no provider and
\* inserts nothing; it returns None exactly when the (client, user) pair has no
\* row, and else a stored row of exactly that client (None for the primary
\* account) and that user.
C7_ResolverIsPureRead ==
    \A p \in Procs :
        (Done(p) /\ IsOp(p, "get_sa")) =>
            /\ ret[p].outcome = "ok"
            /\ NoProviderCall(p)
            /\ NoInsert(p)
            /\ ret[p].first = None <=> ~hist[p].bound
            /\ ret[p].first # None =>
                /\ \E i \in Indices(accounts) : accounts[i] = Val(ret[p].first)
                /\ Val(ret[p].first).client_id = call[p].client_id
                /\ Val(ret[p].first).user_id = call[p].user_id

\* The primary account of a user who also has a client's account was resolved
\* with client None.
C7_Witness ==
    \E p \in Procs :
        /\ Done(p) /\ IsOp(p, "get_sa")
        /\ call[p].client_id = None
        /\ ret[p].first # None
        /\ Val(ret[p].first).client_id = None
        /\ \E c \in Clients : AccountsOf(Some(c), call[p].user_id) # {}

\* C9: a primary-key call never stands in _create_google_service_account_for_client,
\* never calls the provider's create-service-account, never inserts an account
\* row and never ends with the 404 request error: it ends with InternalError, a
\* provider or storage failure, or a key.
C9_PrimaryOpsNeverProvision ==
    \A p \in Procs :
        PrimaryOp(p) =>
            /\ pc[p] # "csa"
            /\ hist[p].nCreateSa = 0
            /\ hist[p].saRows = {}
            /\ ret[p].outcome \in {"none", "InternalError", "ProviderError",
                                   "StorageError", "ok"}
            /\ (Done(p) /\ ret[p].outcome = "ok") => ret[p].first # None

\* A primary-key call without proxy group has persisted a key while the other
\* request has created a client's account.
C9_Witness ==
    \E p, q \in Procs :
        /\ Done(p) /\ PrimaryOp(p)
        /\ call[p].proxy_group_id = None
        /\ ret[p].outcome = "ok"
        /\ hist[p].keyRows # {}
        /\ hist[q].saRows # {}

ExpectedDescription(name) ==
    IF name = Fixture[1].name THEN Fixture[1].description ELSE Val(given[name])
ExpectedProjects(name) ==
    IF name = Fixture[1].name THEN Fixture[1].projects ELSE {}

\* C8: a lookup by a name no stored group has returns None; once create_group
\* was called with the name and a description, a lookup by the name returns a
\* group with exactly that name and that description; get_group_info returns
\* the group's name, its description and exactly its projects.
C8_GroupVisible ==
    looked # None =>
        LET l == Val(looked)
        IN  /\ l.result = None <=> ~l.known
            /\ l.result # None =>
                /\ Val(l.result).name = l.name
                /\ Val(l.result).description = ExpectedDescription(l.name)
                /\ (l.op = "info") => (Val(l.result).projects = ExpectedProjects(l.name))

\* The group create_group stored as ("new_group_1", "a new group") was looked
\* up by its name and returned with that name and description.
C8_Witness ==
    /\ looked # None
    /\ Val(looked).op = "query"
    /\ Val(looked).name = "new_group_1"
    /\ Val(looked).result = Some(NewGroup("new_group_1", "a new group"))
    /\ given["new_group_1"] = Some("a new group")

====
